---------------------------- MODULE Spec2Model ----------------------------
(***************************************************************************)
(* A model of the label-inference engine of The Cannon                     *)
(* (TheCannon/infer_labels.py) and of the Dataset bookkeeping              *)
(* (Code/Version1.1/dataset.py, Code/Version1.2/dataset.py).               *)
(*                                                                         *)
(* Numbers.  Labels, coefficients, fluxes, inverse variances and scatters  *)
(* are integers.  A standard deviation is kept exactly as the rational     *)
(* number under its square root (Sqrt), a weighted sum of squares as an    *)
(* integer fraction, and a chi-square as a fraction whose numerator is an  *)
(* arbitrary-precision natural number (Big), because the residual at the   *)
(* -9999 sentinel labels squares to about 10^16.                           *)
(*                                                                         *)
(* numpy arrays are sequences (index k of the model is index k-1 of the    *)
(* code); a matrix is a sequence of rows.                                  *)
(***************************************************************************)
EXTENDS Integers, Sequences, FiniteSets, TLC

VARIABLES
    \* ---- model.* and dataset.* as _infer_labels reads them
    coeffs_all,       \* model.coeffs: npixels rows of 1 + F(nlabels) entries
    scatters,         \* model.scatters: one entry per pixel
    pivots,           \* model.pivots
    nlabels,          \* dataset.tr_label.shape[1]
    fluxes,           \* dataset.test_flux: nstars rows of npixels entries
    ivars,            \* dataset.test_ivar: nstars rows of npixels entries
    test_label_vals,  \* the dataset's label table (set_test_label_vals)
    starting_guess,   \* the caller's starting guess
    \* ---- locals of _infer_labels
    pc,               \* "entry", "loop", "done" (returned), "raised"
    exc,              \* the exception that reached the caller, or "none"
    jj,               \* number of stars whose loop body has been entered
    labels_all, errs_all, chisq_all,
    sig, labels, covs,
    ret,              \* the returned pair (errs_all, chisq_all)
    \* ---- history
    failed,           \* failed[k]: "Error - curve_fit failed" was printed for star k
    ncalls,           \* calls of dataset.set_test_label_vals so far
    \* ---- the pure functions, called on their own
    arg, res,
    \* ---- dataset.py
    dataset, mask, newds,
    cols,             \* the argument of choose_labels
    before            \* history: the Dataset as it was when choose_labels was called

modelVars == <<coeffs_all, scatters, pivots, nlabels, fluxes, ivars, starting_guess>>
localVars == <<pc, exc, jj, labels_all, errs_all, chisq_all, sig, labels, covs, ret>>
inferVars == <<modelVars, test_label_vals, localVars, failed, ncalls>>
fnVars    == <<arg, res>>
dsVars    == <<dataset, mask, newds, cols, before>>
vars      == <<inferVars, fnVars, dsVars>>

(***************************************************************************)
(* Bounds of the model.                                                    *)
(***************************************************************************)
MaxLabels == 3      \* longest label tuple handed to _get_lvec on its own
MaxLab == 2         \* |label| handed to _get_lvec on its own
MaxStars == 2       \* stars in the test set
MaxIvar == 3        \* largest ivar handed to the variance estimate on its own
MaxScat == 2        \* largest scatter handed to the variance estimate on its own
MaxDsStars == 3     \* stars in a Dataset handed to remove_stars
MaxCols == 3        \* longest list of column indices handed to choose_labels

(***************************************************************************)
(* Sequence helpers.                                                       *)
(***************************************************************************)
Range(s) == {s[i] : i \in 1..Len(s)}

RECURSIVE Flatten(_)
Flatten(ss) == IF ss = <<>> THEN <<>> ELSE Head(ss) \o Flatten(Tail(ss))

RECURSIVE SumSeq(_)
SumSeq(s) == IF s = <<>> THEN 0 ELSE Head(s) + SumSeq(Tail(s))

Repeat(x, n) == [i \in 1..n |-> x]

\* All sequences of length n over S.
Tuples(S, n) == [1..n -> S]

\* np.dot of two vectors of equal length.
Dot(a, b) == SumSeq([i \in 1..Len(a) |-> a[i] * b[i]])

(***************************************************************************)
(* _get_lvec (infer_labels.py:10-31).                                      *)
(***************************************************************************)
\* np.outer(a, b)
Outer(a, b) == [i \in 1..Len(a) |-> [j \in 1..Len(b) |-> a[i] * b[j]]]

\* np.triu_indices(n): the (row, column) pairs of the upper triangle,
\* diagonal included, row by row.
TriuIndices(n) == Flatten([i \in 1..n |-> [k \in 1..(n - i + 1) |-> <<i, i + k - 1>>]])

\* A plausible slip: the strict upper triangle (np.triu_indices(n, 1)).
GetLvecStrict(labels_) ==
    LET n == Len(labels_)
        o == Outer(labels_, labels_)
        idx == Flatten([i \in 1..n |-> [k \in 1..(n - i) |-> <<i, i + k>>]])
    IN  labels_ \o [k \in 1..Len(idx) |-> o[idx[k][1]][idx[k][2]]]

_get_lvec(labels_) ==
    LET n == Len(labels_)
        linear_terms == labels_
        o == Outer(linear_terms, linear_terms)
        idx == TriuIndices(n)
        quadratic_terms == [k \in 1..Len(idx) |-> o[idx[k][1]][idx[k][2]]]
    IN  linear_terms \o quadratic_terms

\* The length of the label vector of n labels.
F(n) == n + (n * (n + 1)) \div 2

\* _func (infer_labels.py:34-50) with coeffs a matrix, one row per pixel:
\* np.dot(coeffs, lvec) is one dot product per row.
_func(coeffs, labels_) ==
    LET lvec == _get_lvec(labels_)
    IN  [p \in 1..Len(coeffs) |-> Dot(coeffs[p], lvec)]


(***************************************************************************)
(* Exact arithmetic.                                                       *)
(***************************************************************************)
Abs(x) == IF x < 0 THEN -x ELSE x

RECURSIVE GCD(_, _)
GCD(a, b) == IF b = 0 THEN a ELSE GCD(b, a % b)

LCM(a, b) == (a \div GCD(a, b)) * b

\* A nonnegative fraction <<n, d>>, d > 0, in lowest terms.
Rat(n, d) == LET g == GCD(n, d) IN <<n \div g, d \div g>>

RatAdd(a, b) ==
    LET l == LCM(a[2], b[2])
    IN  Rat(a[1] * (l \div a[2]) + b[1] * (l \div b[2]), l)

RatLeq(a, b) ==
    LET l == LCM(a[2], b[2])
    IN  a[1] * (l \div a[2]) <= b[1] * (l \div b[2])

RECURSIVE RatSum(_)
RatSum(s) == IF s = <<>> THEN <<0, 1>> ELSE RatAdd(Head(s), RatSum(Tail(s)))

\* The nonnegative real sqrt(q), kept as the fraction q under the root.
Sqrt(q) == [rad |-> q]

\* The nonnegative number x as a real of the same kind: x = sqrt(x * x).
Num(x) == Sqrt(Rat(x * x, 1))

\* Natural numbers of any size: base-BASE digits, least significant first,
\* no leading zero digit; zero is the empty sequence.
BASE == 100 * 100

RECURSIVE BigFromNat(_)
BigFromNat(n) == IF n = 0 THEN <<>> ELSE <<n % BASE>> \o BigFromNat(n \div BASE)

RECURSIVE BigAddC(_, _, _)
BigAddC(a, b, c) ==
    IF a = <<>> /\ b = <<>> THEN BigFromNat(c)
    ELSE LET x == IF a = <<>> THEN 0 ELSE Head(a)
             y == IF b = <<>> THEN 0 ELSE Head(b)
             t == x + y + c
         IN  <<t % BASE>> \o BigAddC(IF a = <<>> THEN a ELSE Tail(a),
                                     IF b = <<>> THEN b ELSE Tail(b),
                                     t \div BASE)

BigAdd(a, b) == BigAddC(a, b, 0)

\* a * k for a natural number k below 200000.
RECURSIVE BigMulNatC(_, _, _)
BigMulNatC(a, k, c) ==
    IF a = <<>> THEN BigFromNat(c)
    ELSE LET t == Head(a) * k + c
         IN  <<t % BASE>> \o BigMulNatC(Tail(a), k, t \div BASE)

BigMulNat(a, k) == IF k = 0 THEN <<>> ELSE BigMulNatC(a, k, 0)

RECURSIVE BigMul(_, _)
BigMul(a, b) ==
    IF a = <<>> \/ b = <<>> THEN <<>>
    ELSE LET rest == BigMul(Tail(a), b)
         IN  BigAdd(BigMulNat(b, Head(a)), IF rest = <<>> THEN <<>> ELSE <<0>> \o rest)

\* <<a \div k, a % k>> for a natural number k, 0 < k < 200000: long division
\* from the most significant digit down.
RECURSIVE BigDivMod(_, _)
BigDivMod(a, k) ==
    IF a = <<>> THEN <<(<<>>), 0>>
    ELSE LET hi == BigDivMod(Tail(a), k)
             t == hi[2] * BASE + Head(a)
             q == t \div k
         IN  <<IF hi[1] = <<>> /\ q = 0 THEN <<>> ELSE <<q>> \o hi[1], t % k>>

\* A nonnegative fraction with a Big numerator, in lowest terms.
BigRat(num, den) ==
    LET g == GCD(BigDivMod(num, den)[2], den)
    IN  [num |-> BigDivMod(num, g)[1], den |-> den \div g]

BigRatAdd(a, b) ==
    LET l == LCM(a.den, b.den)
    IN  BigRat(BigAdd(BigMulNat(a.num, l \div a.den), BigMulNat(b.num, l \div b.den)), l)

BigZero == [num |-> <<>>, den |-> 1]

\* Python's sum(chi2): 0 + chi2[0] + chi2[1] + ...
RECURSIVE BigRatSum(_)
BigRatSum(s) ==
    IF s = <<>> THEN BigZero
    ELSE BigRatAdd(BigRatSum(SubSeq(s, 1, Len(s) - 1)), s[Len(s)])

(***************************************************************************)
(* _infer_labels (infer_labels.py:53-109): the pieces of the loop body.    *)
(***************************************************************************)
LARGE == 200

\* The value the labels and the covariance are set to when curve_fit fails
\* (infer_labels.py:101-102).
SENTINEL == -9999

\* flux - coeffs_all[:,0] * 1.
FluxPiv(flux, call) == [p \in 1..Len(flux) |-> flux[p] - call[p][1]]

\* np.delete(coeffs_all, 0, axis=1)
DeleteCol0(call) == [p \in 1..Len(call) |-> Tail(call[p])]

\* A plausible slip: the scatter is added outside the sentinel test, so a
\* bad pixel's weight depends on its scatter.
SigArrayNoMask(ivar, scat) ==
    [p \in 1..Len(ivar) |->
        IF ivar[p] = 0 /\ scat[p] = 0 THEN Num(LARGE)
        ELSE IF ivar[p] = 0 THEN Sqrt(Rat(LARGE * LARGE + scat[p] * scat[p], 1))
        ELSE Sqrt(RatAdd(Rat(1, ivar[p]), Rat(scat[p] * scat[p], 1)))]

\* sig = np.ones(len(flux)) * LARGE; bad = ivar == 0;
\* sig[~bad] = np.sqrt(1./ivar[~bad] + scatters[~bad]**2)
SigArray(ivar, scat) ==
    [p \in 1..Len(ivar) |->
        IF ivar[p] = 0 THEN Num(LARGE)
        ELSE Sqrt(RatAdd(Rat(1, ivar[p]), Rat(scat[p] * scat[p], 1)))]

\* The residuals flux_piv - _func(coeffs, *labels), one per pixel.
Residuals(coeffs, flux_piv, labels_) ==
    LET f == _func(coeffs, labels_)
    IN  [p \in 1..Len(flux_piv) |-> flux_piv[p] - f[p]]

\* What curve_fit minimises: sum(((f(xdata, *p) - ydata) / sigma)**2).
WSS(coeffs, flux_piv, sig_, labels_) ==
    LET r == Residuals(coeffs, flux_piv, labels_)
    IN  RatSum([p \in 1..Len(r) |-> Rat(r[p] * r[p] * sig_[p].rad[2], sig_[p].rad[1])])

\* The label space the fit searches: len(p0) labels on a bounded grid.
FitLabels == {-1, 0, 1}
LabelGrid(n) == Tuples(FitLabels, n)

\* The least of a nonempty finite set of fractions.
Least(S) == CHOOSE v \in S : \A u \in S : RatLeq(v, u)

\* A plausible slip: the fit returns any point of the label space.
CurveFitAny(coeffs, flux_piv, p0, sig_) == LabelGrid(Len(p0))

\* opt.curve_fit(_func, coeffs, flux_piv, p0=..., sigma=sig,
\* absolute_sigma=True) when it converges: the parameters it can return, the
\* minimisers of the weighted sum of squared residuals over the label space.
CurveFit(coeffs, flux_piv, p0, sig_) ==
    LET reached == {WSS(coeffs, flux_piv, sig_, l) : l \in LabelGrid(Len(p0))}
    IN  {l \in LabelGrid(Len(p0)) : WSS(coeffs, flux_piv, sig_, l) = Least(reached)}

\* The covariance matrices a converged curve_fit can return next to its
\* parameters: symmetric, with positive variances on the diagonal.
CovVals == {1}
CovOff == {-1}
CurveFitCov(p0) ==
    LET n == Len(p0)
    IN  {[i \in 1..n |-> [j \in 1..n |-> IF i = j THEN v + i - 1 ELSE o]] :
            v \in CovVals, o \in CovOff}

\* A plausible slip: the sentinel fills only the diagonal of the covariance.
FailCovsDiag(p0) ==
    [i \in 1..Len(p0) |-> [j \in 1..Len(p0) |-> IF i = j THEN SENTINEL ELSE 0]]

\* np.zeros(starting_guess.shape)-9999.
FailLabels(p0) == [i \in 1..Len(p0) |-> 0 + SENTINEL]

\* np.zeros((len(starting_guess),len(starting_guess)))-9999.
FailCovs(p0) == [i \in 1..Len(p0) |-> [j \in 1..Len(p0) |-> 0 + SENTINEL]]

\* A plausible slip: the chi-square weighs each pixel by ivar alone.
Chi2NoScatter(coeffs, flux_piv, labels_, ivar, scat) ==
    LET r == Residuals(coeffs, flux_piv, labels_)
    IN  [p \in 1..Len(r) |->
            BigRat(BigMulNat(BigMul(BigFromNat(Abs(r[p])), BigFromNat(Abs(r[p]))), ivar[p]), 1)]

\* (flux_piv-_func(coeffs, *labels))**2 * ivar / (1 + ivar * scatters**2)
Chi2(coeffs, flux_piv, labels_, ivar, scat) ==
    LET r == Residuals(coeffs, flux_piv, labels_)
    IN  [p \in 1..Len(r) |->
            BigRat(BigMulNat(BigMul(BigFromNat(Abs(r[p])), BigFromNat(Abs(r[p]))), ivar[p]),
                   1 + ivar[p] * scat[p] * scat[p])]

\* numpy's a + b for two vectors: elementwise when the lengths agree, a
\* vector of length 1 is stretched, anything else is a ValueError.
Add(a, b) ==
    IF Len(a) = Len(b) THEN [ok |-> TRUE, val |-> [i \in 1..Len(a) |-> a[i] + b[i]]]
    ELSE IF Len(b) = 1 THEN [ok |-> TRUE, val |-> [i \in 1..Len(a) |-> a[i] + b[1]]]
    ELSE IF Len(a) = 1 THEN [ok |-> TRUE, val |-> [i \in 1..Len(b) |-> a[1] + b[i]]]
    ELSE [ok |-> FALSE, val |-> <<>>]

\* numpy's row[:] = v for a row of n entries: v must have n entries, or one
\* (stretched); anything else is a ValueError.
AssignRow(n, v) ==
    IF Len(v) = n THEN [ok |-> TRUE, val |-> v]
    ELSE IF Len(v) = 1 THEN [ok |-> TRUE, val |-> Repeat(v[1], n)]
    ELSE [ok |-> FALSE, val |-> <<>>]

\* A plausible slip: the first row of the covariance instead of its diagonal.
FirstRow(m) == [i \in 1..Len(m) |-> m[1][i]]

\* covs.diagonal()
Diagonal(m) == [i \in 1..Len(m) |-> m[i][i]]

(***************************************************************************)
(* The inputs of _infer_labels: a model, a dataset and a starting guess.   *)
(***************************************************************************)
LabelCounts == {1, 2}

\* Coefficient matrices, two pixels each; a row is (offset, linear terms,
\* quadratic terms).  For one label l: an identifiable model (l, 1 + l^2),
\* a model that cannot tell l from -l (l^2, l^2) and a model that does not
\* depend on the label.  For two labels (l1, l2) likewise.
Models(n) ==
    IF n = 1 THEN { << <<0, 1, 0>>, <<1, 0, 1>> >>,
                    << <<0, 0, 1>>, <<0, 0, 1>> >>,
                    << <<0, 0, 0>>, <<1, 0, 0>> >> }
    ELSE { << <<0, 1, 0, 0, 0, 0>>, <<0, 0, 1, 0, 0, 0>> >>,
           << <<0, 1, 0, 0, 0, 0>>, <<1, 0, 0, 0, 1, 0>> >>,
           << <<0, 0, 0, 0, 1, 0>>, <<0, 0, 0, 1, 0, 1>> >> }

ScatterRows == {<<0, 0>>, <<0, 1>>}
PivotVals == {0, 1}
GuessVals == {0}
\* The stars a test set is made of, as (flux row, ivar row): a clean
\* spectrum, a second clean spectrum, one with a bad pixel, one with only
\* bad pixels.
Stars ==
    { << <<0, 1>>, <<1, 1>> >>,
      << <<1, 1>>, <<1, 1>> >>,
      << <<1, 0>>, <<0, 1>> >>,
      << <<0, 1>>, <<0, 0>> >> }
OldLabels == {7}

\* The shape invariants of the model: one coefficient row of 1 + F(nlabels)
\* entries per pixel, one scatter per pixel, one pivot per label, and flux
\* and ivar rows of one entry per pixel.
ShapeOK ==
    /\ \A p \in 1..Len(coeffs_all) : Len(coeffs_all[p]) = 1 + F(nlabels)
    /\ Len(scatters) = Len(coeffs_all)
    /\ Len(pivots) = nlabels
    /\ \A k \in 1..Len(fluxes) :
          Len(fluxes[k]) = Len(coeffs_all) /\ Len(ivars[k]) = Len(coeffs_all)

nstars == Len(fluxes)

fnIdle == arg = <<>> /\ res = <<>>
inferIdle ==
    /\ coeffs_all = <<>> /\ scatters = <<>> /\ pivots = <<>> /\ nlabels = 0
    /\ fluxes = <<>> /\ ivars = <<>> /\ starting_guess = <<>> /\ test_label_vals = <<>>
    /\ exc = "none" /\ jj = 0 /\ labels_all = <<>> /\ errs_all = <<>> /\ chisq_all = <<>>
    /\ sig = <<>> /\ labels = <<>> /\ covs = <<>> /\ ret = <<>>
    /\ failed = <<>> /\ ncalls = 0
inferRest == <<modelVars, test_label_vals, exc, jj, labels_all, errs_all, chisq_all,
               sig, labels, covs, ret, failed, ncalls>>
dsIdle == dataset = <<>> /\ mask = <<>> /\ newds = <<>> /\ cols = <<>> /\ before = <<>>

\* The state when _infer_labels is called.  The pivot may have the wrong
\* length; every other shape is as the model's invariants say.
InitInfer ==
    /\ nlabels \in LabelCounts
    /\ coeffs_all \in Models(nlabels)
    /\ scatters \in ScatterRows
    /\ pivots \in UNION {Tuples(PivotVals, n) : n \in LabelCounts}
    /\ starting_guess \in Tuples(GuessVals, nlabels)
    /\ \E ns \in 0..MaxStars :
          /\ \E stars \in Tuples(Stars, ns) :
                /\ fluxes = [k \in 1..ns |-> stars[k][1]]
                /\ ivars = [k \in 1..ns |-> stars[k][2]]
          /\ \E old \in OldLabels : test_label_vals = Repeat(Repeat(old, nlabels), ns)
          /\ failed = Repeat(FALSE, ns)
    /\ pc = "entry" /\ exc = "none" /\ jj = 0
    /\ labels_all = <<>> /\ errs_all = <<>> /\ chisq_all = <<>>
    /\ sig = <<>> /\ labels = <<>> /\ covs = <<>> /\ ret = <<>>
    /\ ncalls = 0
    /\ fnIdle /\ dsIdle

(***************************************************************************)
(* The steps of _infer_labels.                                             *)
(***************************************************************************)
\* infer_labels.py:70-85: read the model and the dataset, allocate the
\* outputs.  (MCM_rotate_all, lines 80-81, is allocated and never used.)
Enter ==
    /\ pc = "entry"
    /\ labels_all' = Repeat(Repeat(0, nlabels), nstars)
    /\ errs_all' = Repeat(Repeat(0, nlabels), nstars)
    /\ chisq_all' = Repeat(BigZero, nstars)
    /\ pc' = "loop"
    /\ UNCHANGED <<modelVars, test_label_vals, exc, jj, sig, labels, covs, ret,
                   failed, ncalls, fnVars, dsVars>>

\* A plausible slip: the label table is published inside the loop.
StoreStarIncremental(l, c, didFail) ==
    LET k == jj + 1
        flux_piv == FluxPiv(fluxes[k], coeffs_all)
        coeffs == DeleteCol0(coeffs_all)
        chi2 == Chi2(coeffs, flux_piv, l, ivars[k], scatters)
        sum == Add(l, pivots)
        row == IF sum.ok THEN AssignRow(nlabels, sum.val) ELSE sum
    IN  /\ jj' = k
        /\ sig' = SigArray(ivars[k], scatters)
        /\ labels' = l
        /\ covs' = c
        /\ failed' = [failed EXCEPT ![k] = didFail]
        /\ chisq_all' = [chisq_all EXCEPT ![k] = BigRatSum(chi2)]
        /\ IF row.ok
           THEN /\ labels_all' = [labels_all EXCEPT ![k] = row.val]
                /\ errs_all' = [errs_all EXCEPT ![k] = Diagonal(c)]
                /\ test_label_vals' = labels_all'
                /\ ncalls' = ncalls + 1
                /\ UNCHANGED <<pc, exc>>
           ELSE /\ pc' = "raised"
                /\ exc' = "ValueError"
                /\ UNCHANGED <<labels_all, errs_all, test_label_vals, ncalls>>
        /\ UNCHANGED <<modelVars, ret, fnVars, dsVars>>

\* infer_labels.py:103-106 for star jj + 1, with the labels and covariance
\* l, c that lines 94-102 produced.
StoreStar(l, c, didFail) ==
    LET k == jj + 1
        flux_piv == FluxPiv(fluxes[k], coeffs_all)
        coeffs == DeleteCol0(coeffs_all)
        chi2 == Chi2(coeffs, flux_piv, l, ivars[k], scatters)
        sum == Add(l, pivots)
        row == IF sum.ok THEN AssignRow(nlabels, sum.val) ELSE sum
    IN  /\ jj' = k
        /\ sig' = SigArray(ivars[k], scatters)
        /\ labels' = l
        /\ covs' = c
        /\ failed' = [failed EXCEPT ![k] = didFail]
        /\ chisq_all' = [chisq_all EXCEPT ![k] = BigRatSum(chi2)]
        /\ IF row.ok
           THEN /\ labels_all' = [labels_all EXCEPT ![k] = row.val]
                /\ errs_all' = [errs_all EXCEPT ![k] = Diagonal(c)]
                /\ UNCHANGED <<pc, exc>>
           ELSE /\ pc' = "raised"
                /\ exc' = "ValueError"
                /\ UNCHANGED <<labels_all, errs_all>>
        /\ UNCHANGED <<modelVars, test_label_vals, ret, ncalls, fnVars, dsVars>>

\* A plausible slip: a warm start, the labels fitted for a star become the
\* starting guess of the next one.
FitConvergedWarm ==
    /\ pc = "loop" /\ jj < nstars
    /\ LET k == jj + 1
           flux_piv == FluxPiv(fluxes[k], coeffs_all)
           coeffs == DeleteCol0(coeffs_all)
           sum(l) == Add(l, pivots)
           row(l) == IF sum(l).ok THEN AssignRow(nlabels, sum(l).val) ELSE sum(l)
       IN  \E l \in CurveFit(coeffs, flux_piv, starting_guess, SigArray(ivars[k], scatters)) :
           \E c \in CurveFitCov(starting_guess) :
               /\ jj' = k
               /\ sig' = SigArray(ivars[k], scatters)
               /\ labels' = l
               /\ covs' = c
               /\ failed' = [failed EXCEPT ![k] = FALSE]
               /\ chisq_all' = [chisq_all EXCEPT ![k] =
                                    BigRatSum(Chi2(coeffs, flux_piv, l, ivars[k], scatters))]
               /\ starting_guess' = l
               /\ IF row(l).ok
                  THEN /\ labels_all' = [labels_all EXCEPT ![k] = row(l).val]
                       /\ errs_all' = [errs_all EXCEPT ![k] = Diagonal(c)]
                       /\ UNCHANGED <<pc, exc>>
                  ELSE /\ pc' = "raised"
                       /\ exc' = "ValueError"
                       /\ UNCHANGED <<labels_all, errs_all>>
               /\ UNCHANGED <<coeffs_all, scatters, pivots, nlabels, fluxes, ivars,
                              test_label_vals, ret, ncalls, fnVars, dsVars>>

\* One pass of the loop body (infer_labels.py:87-106) in which curve_fit
\* converges.
FitConverged ==
    /\ pc = "loop" /\ jj < nstars
    /\ LET k == jj + 1
           flux_piv == FluxPiv(fluxes[k], coeffs_all)
           coeffs == DeleteCol0(coeffs_all)
       IN  \E l \in CurveFit(coeffs, flux_piv, starting_guess, SigArray(ivars[k], scatters)) :
           \E c \in CurveFitCov(starting_guess) :
               StoreStar(l, c, FALSE)

\* A plausible slip: the RuntimeError of curve_fit is not caught.
FitFailedPropagates ==
    /\ pc = "loop" /\ jj < nstars
    /\ jj' = jj + 1
    /\ sig' = SigArray(ivars[jj + 1], scatters)
    /\ failed' = [failed EXCEPT ![jj + 1] = TRUE]
    /\ pc' = "raised"
    /\ exc' = "RuntimeError"
    /\ UNCHANGED <<modelVars, test_label_vals, labels_all, errs_all, chisq_all,
                   labels, covs, ret, ncalls, fnVars, dsVars>>

\* One pass of the loop body in which curve_fit raises RuntimeError
\* (infer_labels.py:99-102).
FitFailed ==
    /\ pc = "loop" /\ jj < nstars
    /\ StoreStar(FailLabels(starting_guess), FailCovs(starting_guess), TRUE)

\* infer_labels.py:108-109, after the loop.
Finish ==
    /\ pc = "loop" /\ jj = nstars
    /\ test_label_vals' = labels_all
    /\ ncalls' = ncalls + 1
    /\ ret' = <<errs_all, chisq_all>>
    /\ pc' = "done"
    /\ UNCHANGED <<modelVars, exc, jj, labels_all, errs_all, chisq_all, sig, labels,
                   covs, failed, fnVars, dsVars>>

Next == Enter \/ FitConverged \/ FitFailed \/ Finish

Spec == InitInfer /\ [][Next]_vars

(***************************************************************************)
(* _get_lvec called on its own.                                            *)
(***************************************************************************)
InitLvec ==
    /\ pc = "call_get_lvec"
    /\ arg \in UNION {Tuples(-MaxLab..MaxLab, n) : n \in 1..MaxLabels}
    /\ res = <<>>
    /\ inferIdle /\ dsIdle

CallGetLvec ==
    /\ pc = "call_get_lvec"
    /\ res' = _get_lvec(arg)
    /\ pc' = "ret_get_lvec"
    /\ UNCHANGED <<inferRest, arg, dsVars>>

NextLvec == CallGetLvec

SpecLvec == InitLvec /\ [][NextLvec]_vars

\* The place of label_i * label_j, i <= j, in the label vector of n labels:
\* after the n linear terms and the rows 1..i-1 of the upper triangle.
TriuPos(n, i, j) == n + (i - 1) * n - ((i - 1) * (i - 2)) \div 2 + (j - i + 1)

\* C1: _get_lvec of n >= 1 labels (zero and negative entries included) has
\* n + n(n+1)/2 entries, the labels first and unchanged, then the products
\* label_i * label_j, i <= j, row by row; (a, b) gives (a, b, aa, ab, bb).
C1_LvecLayout ==
    pc = "ret_get_lvec" =>
        LET n == Len(arg) IN
        /\ Len(res) = n + (n * (n + 1)) \div 2
        /\ \A i \in 1..n : res[i] = arg[i]
        /\ \A i \in 1..n : \A j \in i..n : res[TriuPos(n, i, j)] = arg[i] * arg[j]
        /\ n = 2 => res = <<arg[1], arg[2], arg[1] * arg[1], arg[1] * arg[2], arg[2] * arg[2]>>

C1_Witness ==
    /\ pc = "ret_get_lvec"
    /\ Len(arg) = 3 /\ arg[1] < 0 /\ arg[2] = 0 /\ arg[3] > 0
    /\ Len(res) = 9 /\ res[6] < 0

(***************************************************************************)
(* The effective standard deviation (infer_labels.py:90-92) on its own.    *)
(***************************************************************************)
PixelCounts == {1, 2}

InitSig ==
    /\ pc = "call_sig"
    /\ \E np \in PixelCounts :
          arg \in Tuples(0..MaxIvar, np) \X Tuples(0..MaxScat, np)
    /\ res = <<>>
    /\ inferIdle /\ dsIdle

CallSig ==
    /\ pc = "call_sig"
    /\ res' = SigArray(arg[1], arg[2])
    /\ pc' = "ret_sig"
    /\ UNCHANGED <<inferRest, arg, dsVars>>

NextSig == CallSig

SpecSig == InitSig /\ [][NextSig]_vars

\* C8: the weight array has one entry per pixel; a pixel with ivar = 0 gets
\* exactly LARGE = 200 whatever its scatter, a pixel with ivar # 0 gets
\* sqrt(1/ivar + scatter^2), which is 1 for ivar = 1 and scatter = 0.
C8_EffectiveSigma ==
    pc = "ret_sig" =>
        LET ivar == arg[1]
            scat == arg[2]
        IN  /\ Len(res) = Len(ivar)
            /\ \A p \in 1..Len(ivar) :
                  /\ ivar[p] = 0 => res[p].rad = <<200 * 200, 1>>
                  /\ ivar[p] # 0 =>
                        res[p].rad[1] * ivar[p] = res[p].rad[2] * (1 + ivar[p] * scat[p] * scat[p])
                  /\ (ivar[p] = 1 /\ scat[p] = 0) => res[p].rad = <<1, 1>>

C8_Witness ==
    /\ pc = "ret_sig"
    /\ Len(res) = 2
    /\ arg[1][1] = 0 /\ arg[2][1] = 2 /\ res[1].rad = <<200 * 200, 1>>
    /\ arg[1][2] = 2 /\ arg[2][2] = 1 /\ res[2].rad = <<3, 2>>

(***************************************************************************)
(* Claims about _infer_labels, checked under Spec.                         *)
(***************************************************************************)
\* Every entry of the row is the literal -9999.
IsSentinelRow(row) == \A i \in 1..Len(row) : row[i] = -9999

\* C2: when curve_fit fails for a star, the star's labels are -9999 in each
\* of the nlabels entries and its covariance -9999 in each of the nlabels x
\* nlabels entries, and no exception reaches the caller for it: the call
\* raises only when the input is malformed.
C2_FailureSentinel ==
    /\ (jj >= 1 /\ failed[jj]) =>
          /\ Len(labels) = nlabels
          /\ \A i \in 1..nlabels : labels[i] = -9999
          /\ Len(covs) = nlabels
          /\ \A i \in 1..nlabels :
                Len(covs[i]) = nlabels /\ \A j \in 1..nlabels : covs[i][j] = -9999
    /\ exc # "RuntimeError"
    /\ pc = "raised" => ~ShapeOK

C2_Witness ==
    /\ pc = "done" /\ ShapeOK /\ nlabels = 2
    /\ jj = 2 /\ ~failed[1] /\ failed[2]
    /\ covs = <<<<-9999, -9999>>, <<-9999, -9999>>>>

\* C3: after _infer_labels completes, every star whose fit failed has the
\* literal -9999 in each entry of its row of the dataset's label table, for
\* any model pivot.
C3_LiteralSentinel ==
    (pc = "done" /\ ShapeOK) =>
        \A k \in 1..nstars : failed[k] => IsSentinelRow(test_label_vals[k])

\* C4: all N stars are processed and an N-row covariance-diagonal matrix
\* and an N-entry chi-square vector are returned; row jj is star jj's; the
\* rows holding the -9999 sentinel are exactly the failing stars' rows; a
\* failing star neither aborts the batch nor changes another star's row.
C4_RowsState ==
    /\ pc = "raised" => ~ShapeOK
    /\ (pc = "loop" /\ jj >= 1) =>
          /\ \A i \in 1..nlabels : errs_all[jj][i] = covs[i][i]
          /\ \A k \in 1..jj : failed[k] <=> IsSentinelRow(errs_all[k])
    /\ pc = "done" =>
          /\ jj = nstars
          /\ ret = <<errs_all, chisq_all>>
          /\ Len(ret[1]) = nstars /\ Len(ret[2]) = nstars
          /\ \A k \in 1..nstars :
                /\ Len(ret[1][k]) = nlabels
                /\ failed[k] <=> IsSentinelRow(ret[1][k])

C4_RowsStep ==
    (pc = "loop" /\ pc' = "loop") =>
        \A k \in 1..nstars :
            k # jj' => (errs_all'[k] = errs_all[k] /\ chisq_all'[k] = chisq_all[k])

C4_BatchIsolation == []C4_RowsState /\ [][C4_RowsStep]_vars

C4_Witness ==
    /\ pc = "done" /\ nstars = 2 /\ nlabels = 2
    /\ ~failed[1] /\ failed[2]
    /\ ret[1][1] = <<1, 2>> /\ ret[1][2] = <<-9999, -9999>>

\* C5: when a shape invariant of the input is violated, _infer_labels
\* raises on entry: no star is fitted, the call does not return, and the
\* dataset's label table is not written, whatever the number of stars.
C5_RaisesOnEntry ==
    ~ShapeOK => (jj = 0 /\ pc # "done" /\ ncalls = 0)

\* C6: the label table is written exactly once, after the last star and
\* never inside the loop; what is written is the whole nstars x nlabels
\* matrix whose row jj is star jj's fitted labels plus the pivot, so no old
\* value survives; a call that raises leaves the table as it was.
C6_TableState ==
    /\ ncalls <= 1
    /\ ncalls = 1 <=> pc = "done"
    /\ pc # "done" =>
          /\ Len(test_label_vals) = nstars
          /\ \A k \in 1..nstars : \A i \in 1..nlabels : test_label_vals[k][i] \in OldLabels
    /\ (pc = "loop" /\ jj >= 1 /\ ShapeOK) =>
          \A i \in 1..nlabels : labels_all[jj][i] = labels[i] + pivots[i]
    /\ pc = "done" =>
          /\ jj = nstars
          /\ test_label_vals = labels_all
          /\ Len(test_label_vals) = nstars
          /\ \A k \in 1..nstars :
                /\ Len(test_label_vals[k]) = nlabels
                /\ \A i \in 1..nlabels : test_label_vals[k][i] \notin OldLabels

C6_TableStep ==
    /\ (pc = "loop" /\ pc' = "loop") =>
          \A k \in 1..nstars : k # jj' => labels_all'[k] = labels_all[k]
    /\ pc' = "done" => labels_all' = labels_all

C6_SingleWrite == []C6_TableState /\ [][C6_TableStep]_vars

C6_Witness ==
    /\ pc = "done" /\ ncalls = 1 /\ nstars = 2 /\ nlabels = 2
    /\ pivots = <<0, 1>>
    /\ test_label_vals[1] = <<-9999, -9998>>
    /\ test_label_vals[2] = <<0, 2>>

\* The flux the model predicts at the labels l: coefficients[:,0] +
\* coefficients[:,1:] . LabelVector(l).
ModelFlux(l) ==
    [p \in 1..Len(coeffs_all) |-> coeffs_all[p][1] + Dot(Tail(coeffs_all[p]), _get_lvec(l))]

\* The label vectors at which the model reproduces star k's flux exactly.
Knowns(k) == {l \in LabelGrid(nlabels) : \A p \in 1..Len(coeffs_all) : ModelFlux(l)[p] = fluxes[k][p]}

ZeroScatter == \A p \in 1..Len(scatters) : scatters[p] = 0

RECURSIVE C9_Den(_, _)
C9_Den(k, p) ==
    IF p = 0 THEN 1
    ELSE C9_Den(k, p - 1) * (1 + ivars[k][p] * scatters[p] * scatters[p])

\* The sum over star k's pixels 1..p with ivar # 0 of residual^2 * ivar /
\* (1 + ivar * scatter^2) at the labels l, times C9_Den(k, npixels).
RECURSIVE C9_Num(_, _, _)
C9_Num(k, l, p) ==
    IF p = 0 THEN <<>>
    ELSE LET r == Abs(fluxes[k][p] - ModelFlux(l)[p])
             d == 1 + ivars[k][p] * scatters[p] * scatters[p]
             w == ivars[k][p] * (C9_Den(k, Len(scatters)) \div d)
         IN  BigAdd(C9_Num(k, l, p - 1),
                    IF ivars[k][p] = 0 THEN <<>>
                    ELSE BigMulNat(BigMul(BigFromNat(r), BigFromNat(r)), w))

\* C9: the chi-square recorded for a star, converged or failed, is the sum
\* over its pixels of (flux_piv - coeffs . LabelVector(labels))^2 * ivar /
\* (1 + ivar * scatter^2) at the labels the solve step produced (-9999 in
\* every entry when the fit failed); it is nonnegative, and the pixels with
\* ivar = 0 add nothing to it.
C9_ChiSquare ==
    jj >= 1 =>
        LET l == IF failed[jj] THEN [i \in 1..nlabels |-> -9999] ELSE labels
            np == Len(scatters)
        IN  /\ failed[jj] => labels = l
            /\ chisq_all[jj].den > 0
            /\ BigMulNat(chisq_all[jj].num, C9_Den(jj, np))
                  = BigMulNat(C9_Num(jj, l, np), chisq_all[jj].den)
            /\ pc = "done" => ret[2][jj] = chisq_all[jj]

C9_Witness ==
    /\ jj = 2 /\ failed[2] /\ ~failed[1]
    /\ scatters = <<0, 1>> /\ ivars[2] = <<0, 1>>
    /\ chisq_all[2].den = 2 /\ Len(chisq_all[2].num) >= 4
    /\ chisq_all[1] # [num |-> <<>>, den |-> 1]

\* What the loop body can record for star k: the sentinel labels when the
\* fit failed, else the labels curve_fit can return for star k's own flux
\* and ivar rows, the model and the starting guess.
Outcomes(k) ==
    IF failed[k] THEN {FailLabels(starting_guess)}
    ELSE CurveFit(DeleteCol0(coeffs_all), FluxPiv(fluxes[k], coeffs_all), starting_guess,
                  SigArray(ivars[k], scatters))

\* The chi-square of star k at the labels l.
OwnChiSq(k, l) ==
    BigRatSum(Chi2(DeleteCol0(coeffs_all), FluxPiv(fluxes[k], coeffs_all), l, ivars[k], scatters))

\* C11: the stars are visited in storage order and every fit starts from
\* the caller's starting_guess: what is recorded for a star (labels,
\* covariance diagonal, chi-square) is an outcome of the fit for the model,
\* that star's own flux and ivar rows and starting_guess; the rows of the
\* stars not yet visited are still as allocated; processing a star writes
\* only its own row and leaves the model, the flux and ivar arrays and
\* starting_guess unchanged.
C11_OwnState ==
    (pc \in {"loop", "done"} /\ ShapeOK) =>
        /\ jj \in 0..nstars
        /\ jj >= 1 =>
              /\ labels \in Outcomes(jj)
              /\ failed[jj] <=> labels = FailLabels(starting_guess)
              /\ labels_all[jj] = [i \in 1..nlabels |-> labels[i] + pivots[i]]
              /\ chisq_all[jj] = OwnChiSq(jj, labels)
              /\ errs_all[jj] = [i \in 1..nlabels |-> covs[i][i]]
              /\ sig = SigArray(ivars[jj], scatters)
        /\ \A k \in (jj + 1)..nstars :
              /\ labels_all[k] = [i \in 1..nlabels |-> 0]
              /\ errs_all[k] = [i \in 1..nlabels |-> 0]
              /\ chisq_all[k] = BigZero

C11_OwnStep ==
    /\ modelVars' = modelVars
    /\ jj' # jj =>
          /\ jj' = jj + 1
          /\ \A k \in 1..nstars :
                (k # jj' /\ pc' = "loop") =>
                    /\ labels_all'[k] = labels_all[k]
                    /\ errs_all'[k] = errs_all[k]
                    /\ chisq_all'[k] = chisq_all[k]
                    /\ failed'[k] = failed[k]

C11_NoWarmStart == []C11_OwnState /\ [][C11_OwnStep]_vars

C11_Witness ==
    /\ pc = "done" /\ ShapeOK /\ nstars = 2 /\ nlabels = 1
    /\ failed[1] /\ ~failed[2]
    /\ fluxes[1] = fluxes[2] /\ ivars[1] = ivars[2]
    /\ labels = <<1>> /\ labels_all[2] = <<1 + pivots[1]>>
    /\ labels_all[1] = <<-9999 + pivots[1]>>


(***************************************************************************)
(* dataset.py: the Dataset class and remove_stars, Version1.1 and          *)
(* Version1.2.  A Python value is kept with what it holds (kind), so that  *)
(* a field that received another field's value can be told apart; None is  *)
(* the value of kind "None".                                               *)
(***************************************************************************)
Val(kind, val) == [kind |-> kind, val |-> val]
None == Val("None", <<>>)

\* Dataset.__init__ of Version1.1 (dataset.py:39-44).
Dataset11(IDs, SNRs, spectra, label_names, label_values) ==
    [version |-> "1.1", IDs |-> IDs, SNRs |-> SNRs, spectra |-> spectra,
     label_names |-> label_names, label_values |-> label_values]

\* Dataset.__init__ of Version1.2 (dataset.py:43-49).
Dataset12(IDs, SNRs, lambdas, spectra, label_names, label_vals) ==
    [version |-> "1.2", IDs |-> IDs, SNRs |-> SNRs, lambdas |-> lambdas,
     spectra |-> spectra, label_names |-> label_names, label_vals |-> label_vals]

\* The entries of s at the places where the boolean sequence m is TRUE.
RECURSIVE Select(_, _)
Select(s, m) ==
    IF s = <<>> THEN <<>>
    ELSE (IF Head(m) THEN <<Head(s)>> ELSE <<>>) \o Select(Tail(s), Tail(m))

\* numpy's a[mask] for a boolean mask: the entries where the mask is True;
\* an IndexError when the mask is not as long as a.
Masked(a, m) ==
    IF Len(a.val) = Len(m) THEN [ok |-> TRUE, val |-> Val(a.kind, Select(a.val, m))]
    ELSE [ok |-> FALSE, val |-> None]

\* remove_stars of Version1.1 (dataset.py:181-191).
remove_stars11(d, m) ==
    LET ids == Masked(d.IDs, m)
        spectra == Masked(d.spectra, m)
        values == Masked(d.label_values, m)
    IN  IF ids.ok /\ spectra.ok /\ values.ok
        THEN [ok |-> TRUE,
              val |-> Dataset11(ids.val, spectra.val, d.label_names, values.val, None)]
        ELSE [ok |-> FALSE, val |-> None]

\* remove_stars of Version1.2 (dataset.py:167-177).
remove_stars12(d, m) ==
    LET ids == Masked(d.IDs, m)
        lambdas == Masked(d.lambdas, m)
        spectra == Masked(d.spectra, m)
        values == Masked(d.label_vals, m)
    IN  IF ids.ok /\ lambdas.ok /\ spectra.ok /\ values.ok
        THEN [ok |-> TRUE,
              val |-> Dataset12(ids.val, lambdas.val, spectra.val, d.label_names,
                                values.val, None)]
        ELSE [ok |-> FALSE, val |-> None]

\* The datasets remove_stars is called on: ns stars of np pixels each and
\* three labels.
DsPixelCounts == {2, 3}
LabelRows == {<<1, 2, 3>>, <<4, 5, 6>>}
LabelNames == <<"Teff", "logg", "FeH">>
StarIDs(ns) == Val("IDs", [k \in 1..ns |-> 100 + k])
StarSNRs(ns) == Val("SNRs", [k \in 1..ns |-> 50 + k])
Lambdas(np) == Val("lambdas", [p \in 1..np |-> 4000 + p])
Spectra(ns, np) == Val("spectra", [k \in 1..ns |-> [p \in 1..np |-> 10 * k + p]])

InitDataset ==
    /\ pc = "call_remove_stars"
    /\ \E ns \in 1..MaxDsStars, np \in DsPixelCounts, version \in {"1.1", "1.2"} :
          /\ mask \in Tuples(BOOLEAN, ns)
          /\ \E values \in Tuples(LabelRows, ns) :
                dataset =
                    IF version = "1.1"
                    THEN Dataset11(StarIDs(ns), StarSNRs(ns), Spectra(ns, np),
                                   Val("label_names", LabelNames), Val("label_values", values))
                    ELSE Dataset12(StarIDs(ns), StarSNRs(ns), Lambdas(np), Spectra(ns, np),
                                   Val("label_names", LabelNames), Val("label_values", values))
    /\ newds = None
    /\ cols = <<>> /\ before = <<>>
    /\ inferIdle /\ fnIdle

RemoveStars11 ==
    /\ pc = "call_remove_stars" /\ dataset.version = "1.1"
    /\ LET r == remove_stars11(dataset, mask)
       IN  /\ newds' = r.val
           /\ pc' = IF r.ok THEN "ret_remove_stars" ELSE "raised"
    /\ UNCHANGED <<inferRest, fnVars, dataset, mask, cols, before>>

RemoveStars12 ==
    /\ pc = "call_remove_stars" /\ dataset.version = "1.2"
    /\ LET r == remove_stars12(dataset, mask)
       IN  /\ newds' = r.val
           /\ pc' = IF r.ok THEN "ret_remove_stars" ELSE "raised"
    /\ UNCHANGED <<inferRest, fnVars, dataset, mask, cols, before>>

NextDataset == RemoveStars11 \/ RemoveStars12

SpecDataset == InitDataset /\ [][NextDataset]_vars

\* The field of the dataset d that holds the label values.
LabelValues(d) == IF d.version = "1.1" THEN d.label_values ELSE d.label_vals

Negate(m) == [k \in 1..Len(m) |-> ~m[k]]

\* C10: remove_stars(dataset, mask) returns a Dataset holding exactly the
\* stars with mask = False, in their order: their IDs in IDs, their spectra
\* in spectra, the label names in label_names and their label values in the
\* label-value field.
C10_RemovesMasked ==
    pc = "ret_remove_stars" =>
        /\ newds.IDs.kind = "IDs"
        /\ newds.IDs.val = Select(dataset.IDs.val, Negate(mask))
        /\ newds.spectra.kind = "spectra"
        /\ newds.spectra.val = Select(dataset.spectra.val, Negate(mask))
        /\ newds.label_names = dataset.label_names
        /\ LabelValues(newds).kind = "label_values"
        /\ LabelValues(newds).val = Select(LabelValues(dataset).val, Negate(mask))

(***************************************************************************)
(* Dataset.choose_labels, Version1.1 (dataset.py:58-68) and Version1.2     *)
(* (dataset.py:66-76).  The column indices in cols count from 0, as in the *)
(* code.                                                                   *)
(***************************************************************************)
\* [self.label_names[i] for i in cols]
NewLabelNames(names, cols_) == [k \in 1..Len(cols_) |-> names[cols_[k] + 1]]

\* colmask = np.zeros(len(self.label_names), dtype=bool); colmask[cols]=1
ColMask(names, cols_) == [c \in 1..Len(names) |-> \E k \in 1..Len(cols_) : cols_[k] + 1 = c]

\* self.label_values[:,colmask]
NewLabelValues(values, colmask) == [k \in 1..Len(values) |-> Select(values[k], colmask)]

\* choose_labels: the Dataset after the call.
choose_labels(self, cols_) ==
    LET names == self.label_names.val
        new_label_names == NewLabelNames(names, cols_)
        colmask == ColMask(names, cols_)
    IN  IF self.version = "1.1"
        THEN [self EXCEPT !.label_names = Val("label_names", new_label_names),
                          !.label_values = Val("label_values",
                                               NewLabelValues(self.label_values.val, colmask))]
        ELSE [self EXCEPT !.label_names = Val("label_names", new_label_names),
                          !.label_vals = Val("label_values",
                                             NewLabelValues(self.label_vals.val, colmask))]

\* The lists of valid column indices choose_labels is called with.
ColLists == UNION {Tuples(0..(Len(LabelNames) - 1), n) : n \in 0..MaxCols}

InitChoose ==
    /\ pc = "call_choose_labels"
    /\ \E ns \in 1..MaxDsStars, np \in DsPixelCounts, version \in {"1.1", "1.2"} :
       \E values \in Tuples(LabelRows, ns) :
          dataset =
              IF version = "1.1"
              THEN Dataset11(StarIDs(ns), StarSNRs(ns), Spectra(ns, np),
                             Val("label_names", LabelNames), Val("label_values", values))
              ELSE Dataset12(StarIDs(ns), StarSNRs(ns), Lambdas(np), Spectra(ns, np),
                             Val("label_names", LabelNames), Val("label_values", values))
    /\ cols \in ColLists
    /\ before = dataset
    /\ mask = <<>> /\ newds = None
    /\ inferIdle /\ fnIdle

ChooseLabels ==
    /\ pc = "call_choose_labels"
    /\ dataset' = choose_labels(dataset, cols)
    /\ pc' = "ret_choose_labels"
    /\ UNCHANGED <<inferRest, fnVars, mask, newds, cols, before>>

NextChoose == ChooseLabels

SpecChoose == InitChoose /\ [][NextChoose]_vars

\* The old columns whose values now sit at column k of the label values.
OldColumns(k) ==
    {c \in 1..Len(before.label_names.val) :
        \A star \in 1..Len(LabelValues(dataset).val) :
            /\ k <= Len(LabelValues(dataset).val[star])
            /\ LabelValues(dataset).val[star][k] = LabelValues(before).val[star][c]}

\* C12: after choose_labels(cols), for any list cols of valid column
\* indices in any order, label_names has len(cols) entries and the label
\* values len(cols) columns, label_names[k] is the old name of the old
\* column whose values now sit at column k, and IDs and spectra are as
\* before.
C12_NamesAligned ==
    pc = "ret_choose_labels" =>
        /\ Len(dataset.label_names.val) = Len(cols)
        /\ \A star \in 1..Len(LabelValues(dataset).val) :
              Len(LabelValues(dataset).val[star]) = Len(cols)
        /\ \A k \in 1..Len(cols) :
              \E c \in OldColumns(k) : dataset.label_names.val[k] = before.label_names.val[c]
        /\ dataset.IDs = before.IDs
        /\ dataset.spectra = before.spectra

\* cs is strictly ascending.
Ascending(cs) == \A k \in 1..(Len(cs) - 1) : cs[k] < cs[k + 1]

\* For the strictly ascending lists cols the names and the columns do stay
\* aligned.
AlignedWhenAscending ==
    (pc = "ret_choose_labels" /\ Ascending(cols)) =>
        /\ Len(dataset.label_names.val) = Len(cols)
        /\ \A star \in 1..Len(LabelValues(dataset).val) :
              Len(LabelValues(dataset).val[star]) = Len(cols)
        /\ \A k \in 1..Len(cols) :
              \E c \in OldColumns(k) : dataset.label_names.val[k] = before.label_names.val[c]
        /\ dataset.IDs = before.IDs
        /\ dataset.spectra = before.spectra

=============================================================================
